---- MODULE Spec2Model ----
(***************************************************************************)
(* BuildMaster build orchestration (src/api/build_ops.py) as a state       *)
(* machine.  One asyncio event loop hosts the REST handlers and one        *)
(* run_build task per build; every action below is the code that runs      *)
(* between two suspension points (await) of a coroutine, or a step of the   *)
(* environment (the build subprocess writing to its log, or exiting).       *)
(* A second specification, HelperSpec, applies the helper functions of the *)
(* module (log parsing, progress, environment, status store, history) to   *)
(* inputs drawn from bounded sets.                                         *)
(* LiveSpec is the build machine of one build under the fairness of the    *)
(* event loop; WorkerSpec is the worker tracker of system_metrics.py next  *)
(* to the status files it writes.                                          *)
(***************************************************************************)
EXTENDS Integers, Sequences, FiniteSets, TLC

\* ------------------------------------------------------------------ bounds
MaxBuilds == 2      \* build ids handed out by start_build
MaxLog == 2         \* lines the subprocess of a single build appends to its log
MaxTicks == 2       \* monitor-loop iterations that find that process alive
MaxFiles == 3       \* status files in BUILD_DATA_DIR when the history is read
MaxContent == 3     \* lines of a log a helper function is applied to
MaxStepIndex == 11  \* greatest step index calculate_progress is applied to
MaxMinutes == 6     \* minutes of wall-clock time the worker tracker is followed for

\* What one behaviour explores: one build with the whole budget of log lines
\* and loop iterations; two builds that share one log line and one loop
\* iteration; or MaxBuilds builds whose processes write nothing and whose
\* loops only see the process exit.
Scenarios ==
    {[builds |-> 1, log |-> MaxLog, ticks |-> MaxTicks],
     [builds |-> 2, log |-> 1, ticks |-> 1],
     [builds |-> MaxBuilds, log |-> 0, ticks |-> 0]}

\* --------------------------------------------------------- program constants
BUILD_TIMEOUT_SECONDS == 1800
BUILD_STALL_TIMEOUT_SECONDS == 600
BUILD_SANITY_CHECK_INTERVAL == 30
POLL_INTERVAL == 5

BuildIds == 1..MaxBuilds

\* Python's None, for the nullable text fields of a record
None == "None"

\* load_build_status(id) is None: no entry in the map, no file
NoRecord == [status |-> "absent"]

\* asyncio.sleep(5) returns after AT LEAST five seconds of wall-clock time
\* (datetime.utcnow()); these are the durations one sleep may be observed
\* to have taken.
SleepDurations ==
    {POLL_INTERVAL, BUILD_STALL_TIMEOUT_SECONDS + 1, BUILD_TIMEOUT_SECONDS + 1}

\* BUILD_STEPS: step index -> weight
BUILD_STEPS ==
    [s \in 0..9 |->
        CASE s = 0 -> 2 [] s = 1 -> 5 [] s = 2 -> 2 [] s = 3 -> 1
          [] s = 4 -> 10 [] s = 5 -> 60 [] s = 6 -> 3 [] s = 7 -> 2
          [] s = 8 -> 12 [] s = 9 -> 3]

RECURSIVE SumWeights(_)
SumWeights(S) ==
    IF S = {} THEN 0
    ELSE LET s == CHOOSE x \in S : TRUE
         IN  BUILD_STEPS[s] + SumWeights(S \ {s})

Min(a, b) == IF a <= b THEN a ELSE b

\* calculate_progress without the cap
calculate_progress_NoCap(current_step, step_complete) ==
    LET total_weight == SumWeights(DOMAIN BUILD_STEPS)
        completed_weight ==
            SumWeights({s \in DOMAIN BUILD_STEPS :
                          s < current_step \/ (s = current_step /\ step_complete)})
    IN  (completed_weight * 100) \div total_weight

\* calculate_progress: percentage of the weight of the completed steps,
\* capped at 99 (the weights sum to 100, so the value is integral)
calculate_progress(current_step, step_complete) ==
    LET total_weight == SumWeights(DOMAIN BUILD_STEPS)
        completed_weight ==
            SumWeights({s \in DOMAIN BUILD_STEPS :
                          s < current_step \/ (s = current_step /\ step_complete)})
    IN  Min(99, (completed_weight * 100) \div total_weight)

\* ------------------------------------------------------------------ strings
\* Python's str operations, on TLA+ strings (sequences of characters)
Char(s, i) == SubSeq(s, i, i)

\* s.startswith(p)
StartsWith(s, p) == Len(s) >= Len(p) /\ SubSeq(s, 1, Len(p)) = p

\* p in s
Occurs(p, s) ==
    \E i \in 1..(Len(s) - Len(p) + 1) : SubSeq(s, i, i + Len(p) - 1) = p

LowerChar(c) ==
    CASE c = "A" -> "a" [] c = "B" -> "b" [] c = "C" -> "c" [] c = "D" -> "d"
      [] c = "E" -> "e" [] c = "F" -> "f" [] c = "G" -> "g" [] c = "H" -> "h"
      [] c = "I" -> "i" [] c = "J" -> "j" [] c = "K" -> "k" [] c = "L" -> "l"
      [] c = "M" -> "m" [] c = "N" -> "n" [] c = "O" -> "o" [] c = "P" -> "p"
      [] c = "Q" -> "q" [] c = "R" -> "r" [] c = "S" -> "s" [] c = "T" -> "t"
      [] c = "U" -> "u" [] c = "V" -> "v" [] c = "W" -> "w" [] c = "X" -> "x"
      [] c = "Y" -> "y" [] c = "Z" -> "z" [] OTHER -> c

\* s.lower()
RECURSIVE Lower(_)
Lower(s) ==
    IF s = "" THEN "" ELSE LowerChar(Char(s, 1)) \o Lower(SubSeq(s, 2, Len(s)))

Whitespace == {" ", "\t", "\n", "\r"}

\* s.lstrip(), s.rstrip(), s.strip()
RECURSIVE LStrip(_)
LStrip(s) ==
    IF s # "" /\ Char(s, 1) \in Whitespace THEN LStrip(SubSeq(s, 2, Len(s)))
    ELSE s

RECURSIVE RStrip(_)
RStrip(s) ==
    IF s # "" /\ Char(s, Len(s)) \in Whitespace
    THEN RStrip(SubSeq(s, 1, Len(s) - 1))
    ELSE s

Strip(s) == RStrip(LStrip(s))

Digits == {"0", "1", "2", "3", "4", "5", "6", "7", "8", "9"}

DigitValue(c) ==
    CASE c = "0" -> 0 [] c = "1" -> 1 [] c = "2" -> 2 [] c = "3" -> 3
      [] c = "4" -> 4 [] c = "5" -> 5 [] c = "6" -> 6 [] c = "7" -> 7
      [] c = "8" -> 8 [] c = "9" -> 9

\* int(s) of a string of digits
RECURSIVE ToInt(_)
ToInt(s) ==
    IF s = "" THEN 0
    ELSE 10 * ToInt(SubSeq(s, 1, Len(s) - 1)) + DigitValue(Char(s, Len(s)))

\* the length of the run of digits of s that starts at position i
RECURSIVE DigitRun(_, _)
DigitRun(s, i) ==
    IF i <= Len(s) /\ Char(s, i) \in Digits THEN 1 + DigitRun(s, i + 1) ELSE 0

\* r'\[STEP (\d+)\] (.+)' matches the line at position i
StepMatchesAt(line, i) ==
    LET d == DigitRun(line, i + 6)
    IN  /\ i + 5 <= Len(line)
        /\ SubSeq(line, i, i + 5) = "[STEP "
        /\ d >= 1
        /\ i + 6 + d + 2 <= Len(line)
        /\ SubSeq(line, i + 6 + d, i + 6 + d + 1) = "] "

\* the groups of that match: the digits, and the rest of the line
StepGroups(line, i) ==
    LET d == DigitRun(line, i + 6)
    IN  <<ToInt(SubSeq(line, i + 6, i + 5 + d)),
          SubSeq(line, i + 6 + d + 2, Len(line))>>

\* re.search of the pattern in one line: the leftmost match, as its groups;
\* <<-1, "">> when the line holds no match ((.+) runs to the end of the line,
\* so a line holds at most one match of re.findall)
StepSearch(line) ==
    LET at == {i \in 1..Len(line) : StepMatchesAt(line, i)}
    IN  IF at = {} THEN <<-1, "">>
        ELSE StepGroups(line, CHOOSE i \in at : \A j \in at : i <= j)

\* ------------------------------------------------------------ the log file
\* The log is the sequence of its lines.  The subprocess of a build writes
\* lines of LogLines; HelperLines are further lines the helper functions are
\* applied to.
StepLine6 == "[STEP 6] Verify build"
StepLine12 == "[STEP 12] Cleanup"
MarkerLine == "BUILD COMPLETED SUCCESSFULLY"
OomLine == "FATAL ERROR: heap out of memory"

LogLines == {StepLine6, StepLine12, MarkerLine, OomLine}

HelperLines ==
    {"[INFO] restart [STEP 5] Build app", "[STEP 9]", "[STEP x] Build app",
     "JavaScript Heap Out Of Memory", "Error: connect ECONNREFUSED ::1:6379",
     "Module not found: Can't resolve 'x'", "SyntaxError: Unexpected token <",
     "Type error: x is not assignable"}

AllLines == LogLines \cup HelperLines

\* success_indicators of is_build_successful
success_indicators ==
    {"Server build and restart completed!", "BUILD COMPLETED SUCCESSFULLY",
     "BUILD_COMPLETED created", "Build completed successfully"}

\* the phrases run_build looks for in log_content.lower()
ErrorPhrases ==
    {"out of memory", "heap out of memory", "econnrefused",
     "connection refused", "module not found", "cannot find module",
     "syntax error", "unexpected token", "type error", "typescript error",
     "fatal error"}

\* extract_errors appends the line
IsErrorLine(l) ==
    \/ StartsWith(Strip(l), "[ERROR]")
    \/ Occurs("Build error", l) \/ Occurs("Failed to compile", l)
    \/ Occurs("FATAL ERROR", l) \/ Occurs("heap out of memory", Lower(l))

\* what the searches of build_ops.py find in each line (computed once)
LineInfo ==
    [l \in AllLines |->
        [step |-> StepSearch(l)[1],
         name |-> StepSearch(l)[2],
         marker |-> \E m \in success_indicators : Occurs(m, l),
         phrases |-> {p \in ErrorPhrases : Occurs(p, Lower(l))},
         error |-> IsErrorLine(l)]]

\* group(1) of r'\[STEP (\d+)\] (.+)' in the line, -1 when it does not match
LineStep(l) == LineInfo[l].step

\* group(2) of the same match
LineStepName(l) == LineInfo[l].name

\* success_indicators of is_build_successful occurring in the line
LineHasMarker(l) == LineInfo[l].marker

\* lower-cased phrases of the error taxonomy occurring in the line
LinePhrases(l) == LineInfo[l].phrases

\* the line makes extract_errors report an error
LineIsError(l) == LineInfo[l].error

\* phrase in content.lower()
Contains(content, phrase) ==
    \E i \in 1..Len(content) : phrase \in LinePhrases(content[i])

\* get_current_step_from_log that reports the highest step of the log
get_current_step_from_log_Highest(content) ==
    LET matches == {i \in 1..Len(content) : LineStep(content[i]) >= 0}
    IN  IF matches # {}
        THEN LET top == CHOOSE i \in matches :
                            \A j \in matches :
                                LineStep(content[j]) <= LineStep(content[i])
             IN  <<LineStep(content[top]), LineStepName(content[top])>>
        ELSE <<0, "Initializing">>

\* get_current_step_from_log: the last [STEP n] occurrence of the whole log
get_current_step_from_log(content) ==
    LET matches == {i \in 1..Len(content) : LineStep(content[i]) >= 0}
    IN  IF matches # {}
        THEN LET last == CHOOSE i \in matches : \A j \in matches : j <= i
             IN  <<LineStep(content[last]), LineStepName(content[last])>>
        ELSE <<0, "Initializing">>

\* is_build_successful without the double check against the log
is_build_successful_ExitCodeOnly(output, exit_code) == exit_code = 0

\* is_build_successful
is_build_successful(output, exit_code) ==
    IF exit_code # 0 THEN FALSE
    ELSE \E i \in 1..Len(output) : LineHasMarker(output[i])

\* extract_errors(output) is non-empty
HasErrors(output) == \E i \in 1..Len(output) : LineIsError(output[i])

\* an error type chosen with the connection phrases looked for first
ClassifyErrorType_ConnectionFirst(content) ==
    IF Contains(content, "econnrefused") \/ Contains(content, "connection refused")
    THEN "CONNECTION_ERROR"
    ELSE IF Contains(content, "out of memory") \/ Contains(content, "heap out of memory")
    THEN "OUT_OF_MEMORY"
    ELSE "BUILD_ERROR"

\* the error type chosen at process exit (run_build, "Determine error type")
ClassifyErrorType(content) ==
    IF Contains(content, "out of memory") \/ Contains(content, "heap out of memory")
    THEN "OUT_OF_MEMORY"
    ELSE IF Contains(content, "econnrefused") \/ Contains(content, "connection refused")
    THEN "CONNECTION_ERROR"
    ELSE IF Contains(content, "module not found") \/ Contains(content, "cannot find module")
    THEN "MODULE_NOT_FOUND"
    ELSE IF Contains(content, "syntax error") \/ Contains(content, "unexpected token")
    THEN "SYNTAX_ERROR"
    ELSE IF Contains(content, "type error") \/ Contains(content, "typescript error")
    THEN "TYPE_ERROR"
    ELSE "BUILD_ERROR"

\* "STEP_{current_step}"
StepLabel(n) ==
    CASE n = 0 -> "STEP_0" [] n = 6 -> "STEP_6"
      [] n = 12 -> "STEP_12" [] OTHER -> "STEP_?"

\* ------------------------------------------------------------------- state
VARIABLES
    storage,            \* _build_storage: build id -> record, or NoRecord
    disk,               \* BUILD_DATA_DIR/<id>.json, or NoRecord
    running_processes,  \* _running_processes, as the set of its keys
    proc,               \* the subprocess of each build
    log,                \* lines the subprocess has appended to <id>.log
    pc,                 \* where start_build / run_build of each build stands
    loc,                \* local variables of the monitor loop of run_build
    fired,              \* the sanity check of the loop that ended it, if any
    ticks,              \* monitor-loop iterations counted against limits.ticks
    limits,             \* the scenario of this behaviour (never changes)
    kpc,                \* where kill_build of each build stands
    resp,               \* what the REST call that returned in the last step answered
    mail,               \* how the notifier call that returned in the last step ended
    call,               \* the last application of a helper function, with its result
    workers,            \* _worker_tracker.workers: worker id -> entry, or NoWorker
    now                 \* datetime.utcnow(), in minutes

vars == <<storage, disk, running_processes, proc, log, pc, loc, fired, ticks,
          limits, kpc, resp, mail, call, workers, now>>

ActiveStatuses == {"running", "pending"}
TerminalStatuses == {"success", "error", "stalled", "cancelled"}

\* the record start_build creates
InitialRecord ==
    [status |-> "pending", progress |-> 0, current_step |-> "INIT",
     message |-> "Build queued", error |-> None, error_type |-> None,
     completed_at |-> None, end_time |-> None]

\* a subprocess: state "alive" is process.returncode None, "exited" is a set
\* returncode; term, kill: SIGTERM / SIGKILL signals it was sent; supKill:
\* the process.kill() calls issued by run_build
NoProc == [state |-> "none", returncode |-> 0, term |-> 0, kill |-> 0,
           supKill |-> 0]

\* no REST call returned in the last step
NoResp == [call |-> "none", build |-> 0, outcome |-> "", error |-> "", cited |-> ""]

\* no helper function has been applied
NoCall == [fn |-> "none"]

\* the ids build workers report under
WorkerIds == {"w1", "w2"}

\* no entry for a worker id in WorkerTracker.workers
NoWorker == [status |-> "absent"]

\* WorkerTracker.__init__: self.workers = {}
NoWorkers == [w \in WorkerIds |-> NoWorker]

NoLocals == [elapsed |-> 0, sinceOutput |-> 0, sinceCheck |-> 0,
             last_output_size |-> 0, last_step |-> 0]

\* the module globals of a server process that has just started, and an
\* empty BUILD_DATA_DIR
ServerStart ==
    /\ storage = [b \in BuildIds |-> NoRecord]
    /\ disk = [b \in BuildIds |-> NoRecord]
    /\ running_processes = {}
    /\ proc = [b \in BuildIds |-> NoProc]
    /\ log = [b \in BuildIds |-> <<>>]
    /\ pc = [b \in BuildIds |-> "none"]
    /\ loc = [b \in BuildIds |-> NoLocals]
    /\ fired = [b \in BuildIds |-> "none"]
    /\ ticks = 0
    /\ kpc = [b \in BuildIds |-> "idle"]
    /\ resp = NoResp
    /\ mail = "none"
    /\ call = NoCall
    /\ workers = NoWorkers
    /\ now = 0

Init ==
    /\ ServerStart
    /\ limits \in Scenarios


\* size of the header run_build writes to the log before spawning
HeaderSize == 1

\* ----------------------------------------------------------- worker tracker
\* WorkerTracker.stalled_threshold = timedelta(minutes=5)
stalled_threshold == 5

\* the entry update_worker stores: start_time is kept from the entry before
WorkerEntry(w, job_name, status) ==
    [job_name |-> job_name, status |-> status, last_updated |-> now,
     start_time |-> IF workers[w] # NoWorker THEN workers[w].start_time ELSE now]

\* WorkerTracker.update_worker
update_worker(w, job_name, status) ==
    workers' = [workers EXCEPT ![w] = WorkerEntry(w, job_name, status)]

\* WorkerTracker.remove_worker
remove_worker(w) == workers' = [workers EXCEPT ![w] = NoWorker]

\* WorkerTracker.clear_all_workers
clear_all_workers == workers' = NoWorkers

\* WorkerTracker.get_stalled_workers: running entries not updated for longer
\* than the threshold
get_stalled_workers ==
    {w \in WorkerIds :
        /\ workers[w] # NoWorker
        /\ workers[w].status = "running"
        /\ now - workers[w].last_updated > stalled_threshold}

\* WorkerTracker.get_all_workers, the element it returns for worker w
get_all_workers(w) ==
    LET is_stalled == now - workers[w].last_updated > stalled_threshold
    IN  [id |-> w, job_name |-> workers[w].job_name,
         status |-> IF is_stalled THEN "stalled" ELSE workers[w].status,
         is_stalled |-> is_stalled]

\* ------------------------------------------------------------ status store
\* save_build_status that keeps the entry the map already holds
save_build_status_KeepFirst(b, status_data) ==
    /\ storage' = IF storage[b] # NoRecord THEN storage
                  ELSE [storage EXCEPT ![b] = status_data]
    /\ disk' = [disk EXCEPT ![b] = status_data]

\* save_build_status: the in-memory map and the per-id JSON file.  Every
\* value of a record is a JSON type (string, number, null), so what json.load
\* reads back from the file equals the dictionary json.dump wrote.
save_build_status(b, status_data) ==
    /\ storage' = [storage EXCEPT ![b] = status_data]
    /\ disk' = [disk EXCEPT ![b] = status_data]

\* load_build_status: the in-memory map first, the file as a fallback
load_build_status(b) ==
    IF storage[b] # NoRecord THEN storage[b] ELSE disk[b]

\* check_active_build that looks for running builds only
check_active_build_RunningOnly ==
    \/ \E b \in BuildIds : storage[b].status = "running"
    \/ \E b \in BuildIds : disk[b].status = "running"

\* check_active_build: some record in memory, or in one of the five most
\* recently written files (all files, for MaxBuilds <= 5), is running or
\* pending
check_active_build ==
    \/ \E b \in BuildIds : storage[b].status \in {"running", "pending"}
    \/ \E b \in BuildIds : disk[b].status \in {"running", "pending"}

\* ---------------------------------------------------------------- notifier
\* send_build_started_email / send_build_completed_email /
\* send_build_stalled_email return True or raise (send_email re-raises what
\* aiosmtplib raised); every call site wraps the await in try/except
NotifierResult(raised) == IF raised THEN "raised" ELSE "sent"

\* ---------------------------------------------------- POST /api/build/start
\* uuid.uuid4(): an id no build has used (ids are handed out in order)
FreshId(b) ==
    /\ b <= limits.builds
    /\ storage[b] = NoRecord /\ disk[b] = NoRecord /\ pc[b] = "none"
    /\ \A c \in BuildIds : c < b => pc[c] # "none"

\* a response of POST /api/build/start: the initial status, or HTTP 400
StartResp(outcome) ==
    [call |-> "start", build |-> 0, outcome |-> outcome, error |-> "", cited |-> ""]

\* build_start_endpoint when check_active_build() finds a build: HTTP 400
BuildStartRejected ==
    /\ UNCHANGED <<limits, call, workers, now>>
    /\ mail' = "none"
    /\ check_active_build
    /\ resp' = StartResp("400")
    /\ UNCHANGED <<storage, disk, running_processes, proc, log, pc, loc, fired, ticks, kpc>>

\* build_start_endpoint -> start_build, up to `await send_build_started_email`
\* (check_active_build has no await: the check and the creation of the
\* pending record run without yielding to the event loop)
StartBuild(b) ==
    /\ UNCHANGED <<limits, call, now>>
    /\ mail' = "none"
    /\ resp' = NoResp
    /\ FreshId(b)
    /\ ~check_active_build
    /\ clear_all_workers
    /\ save_build_status(b, InitialRecord)
    /\ pc' = [pc EXCEPT ![b] = "start_email"]
    /\ UNCHANGED <<running_processes, proc, log, loc, fired, ticks, kpc>>

\* start_build after the try/except around the email: create_task(run_build),
\* return the pending response
StartBuildContinue(b) ==
    /\ pc[b] = "start_email"
    /\ pc' = [pc EXCEPT ![b] = "start"]
    /\ resp' = StartResp("pending")
    /\ UNCHANGED <<storage, disk, running_processes, proc, log, loc, fired, ticks, kpc>>

\* `await send_build_started_email` returns or raises; `except Exception`
\* prints and falls through
StartBuildResume(b, raised) ==
    /\ UNCHANGED <<limits, call, workers, now>>
    /\ mail' = NotifierResult(raised)
    /\ StartBuildContinue(b)

\* ---------------------------------------------------------------- run_build
\* an exception handler that puts the build back in the queue
ExceptionRecord_Requeue(status_data) ==
    [status_data EXCEPT !.status = "pending", !.message = "Build error",
                        !.error = "exception", !.completed_at = "set"]

\* the `except Exception` handler of run_build
ExceptionRecord(status_data) ==
    [status_data EXCEPT !.status = "error", !.message = "Build error",
                        !.error = "exception", !.completed_at = "set"]

\* run_build from its start to `await asyncio.create_subprocess_exec`
RunBuildStart(b) ==
    /\ UNCHANGED <<limits, call, workers, now>>
    /\ mail' = "none"
    /\ resp' = NoResp
    /\ pc[b] = "start"
    /\ LET status_data == load_build_status(b)
       IN  IF status_data # NoRecord
           THEN save_build_status(b,
                    [status_data EXCEPT !.status = "running",
                                        !.message = "Build starting...",
                                        !.current_step = "INIT",
                                        !.progress = 0])
           ELSE UNCHANGED <<storage, disk>>
    /\ pc' = [pc EXCEPT ![b] = "spawning"]
    /\ UNCHANGED <<running_processes, proc, log, loc, fired, ticks, kpc>>

\* create_subprocess_exec returned a process: register it, enter the loop
SpawnOk(b) ==
    /\ UNCHANGED <<limits, call, workers, now>>
    /\ mail' = "none"
    /\ resp' = NoResp
    /\ pc[b] = "spawning"
    /\ proc' = [proc EXCEPT ![b] = [NoProc EXCEPT !.state = "alive"]]
    /\ running_processes' = running_processes \cup {b}
    /\ loc' = [loc EXCEPT ![b] = NoLocals]
    /\ pc' = [pc EXCEPT ![b] = "sleep"]
    /\ UNCHANGED <<storage, disk, log, fired, ticks, kpc>>

\* create_subprocess_exec raised (executable missing, permission denied)
SpawnFail(b) ==
    /\ UNCHANGED <<limits, call, workers, now>>
    /\ mail' = "none"
    /\ resp' = NoResp
    /\ pc[b] = "spawning"
    /\ LET status_data == load_build_status(b)
       IN  IF status_data # NoRecord
           THEN save_build_status(b, ExceptionRecord(status_data))
           ELSE UNCHANGED <<storage, disk>>
    /\ pc' = [pc EXCEPT ![b] = "exc_email"]
    /\ UNCHANGED <<running_processes, proc, log, loc, fired, ticks, kpc>>

\* an exit classification that takes death by a signal for a cancellation
FinalRecord_InferCancelled(status_data, log_content, returncode) ==
    IF returncode < 0
    THEN [status_data EXCEPT !.status = "cancelled",
                             !.message = "Build was cancelled",
                             !.completed_at = "set"]
    ELSE IF returncode = 0 /\ is_build_successful(log_content, returncode)
    THEN [status_data EXCEPT !.status = "success",
                             !.message = "Build completed successfully",
                             !.progress = 100,
                             !.current_step = "COMPLETE",
                             !.completed_at = "set"]
    ELSE [status_data EXCEPT !.status = "error",
                             !.error_type = ClassifyErrorType(log_content),
                             !.completed_at = "set"]

\* run_build from "Read final log content" to the save before the
\* completion email: the exit classification
FinalRecord(status_data, log_content, returncode) ==
    IF returncode = 0 /\ is_build_successful(log_content, returncode)
    THEN [status_data EXCEPT !.status = "success",
                             !.message = "Build completed successfully",
                             !.progress = 100,
                             !.current_step = "COMPLETE",
                             !.completed_at = "set"]
    ELSE [status_data EXCEPT !.status = "error",
                             !.message = IF HasErrors(log_content)
                                         THEN "Build failed: <first error>"
                                         ELSE "Build failed with exit code",
                             !.error = IF HasErrors(log_content) THEN "errors"
                                       ELSE IF Len(log_content) + HeaderSize > 0
                                            THEN "log tail"
                                            ELSE "Unknown error",
                             !.error_type = ClassifyErrorType(log_content),
                             !.completed_at = "set"]


\* the `await process.wait()` after the loop has returned: classify, save
Finalize(b) ==
    /\ save_build_status(b, FinalRecord(load_build_status(b), log[b],
                                        proc[b].returncode))
    /\ pc' = [pc EXCEPT ![b] = "complete_email"]

\* `except Exception` of run_build, reached from inside the loop
RaiseInRunBuild(b) ==
    /\ LET status_data == load_build_status(b)
       IN  IF status_data # NoRecord
           THEN save_build_status(b, ExceptionRecord(status_data))
           ELSE UNCHANGED <<storage, disk>>
    /\ pc' = [pc EXCEPT ![b] = "exc_email"]

\* the record after "SANITY CHECK 1" fired
TimeoutRecord(status_data) ==
    [status_data EXCEPT !.status = "error", !.error_type = "TIMEOUT",
                        !.message = "Build exceeded maximum time limit",
                        !.error = "Build timeout"]

\* the record after "SANITY CHECK 2" fired
StalledRecord(status_data) ==
    [status_data EXCEPT !.status = "stalled", !.error_type = "STALLED",
                        !.message = "Build stalled - no output",
                        !.error = "Build appears to be stuck"]

\* the record after the memory check of "SANITY CHECK 3" fired
OomRecord(status_data) ==
    [status_data EXCEPT !.status = "error", !.error_type = "OUT_OF_MEMORY",
                        !.message = "Build crashed - out of memory",
                        !.error = "Memory exhausted during build"]

\* the record after "Parse log for progress updates" saw a new step
StepRecord(status_data, current_step, step_name) ==
    [status_data EXCEPT !.current_step = StepLabel(current_step),
                        !.progress = calculate_progress(current_step, FALSE),
                        !.message = step_name]

\* the memory phrases the periodic health check looks for
OomInLog(content) ==
    Contains(content, "heap out of memory") \/ Contains(content, "fatal error")


\* a process.kill() that sends no signal
SupervisorKill_NoSignal(p) == [p EXCEPT !.supKill = @ + 1]

\* a process.kill() repeated after the loop
SupervisorKill_Twice(p) == [p EXCEPT !.kill = @ + 2, !.supKill = @ + 2]

\* process.kill() issued by run_build on a process that has not exited
SupervisorKill(p) == [p EXCEPT !.kill = @ + 1, !.supKill = @ + 1]

\* process.kill() issued by run_build on a process that has exited: no signal
KillAfterExit(p) == [p EXCEPT !.supKill = @ + 1]

\* "SANITY CHECK 3" and the end of one loop iteration; status_data is the
\* record as the earlier part of the iteration left it, l the locals
SanityCheck(b, status_data, l, dirty) ==
    IF l.sinceCheck > BUILD_SANITY_CHECK_INTERVAL
    THEN IF OomInLog(log[b])
         THEN /\ save_build_status(b, OomRecord(status_data))
              /\ proc' = [proc EXCEPT ![b] = SupervisorKill(@)]
              /\ loc' = [loc EXCEPT ![b] = NoLocals]
              /\ fired' = [fired EXCEPT ![b] = "oom"]
              /\ pc' = [pc EXCEPT ![b] = "wait"]
         ELSE /\ save_build_status(b, status_data)
              /\ loc' = [loc EXCEPT ![b] = [l EXCEPT !.sinceCheck = 0]]
              /\ UNCHANGED <<proc, pc, fired>>
    ELSE /\ IF dirty THEN save_build_status(b, status_data)
                     ELSE UNCHANGED <<storage, disk>>
         /\ loc' = [loc EXCEPT ![b] = l]
         /\ UNCHANGED <<proc, pc, fired>>

\* one iteration of the monitor loop that finds the process alive, d seconds
\* after the iteration before: the code from `current_time = ...` to the
\* next await
LoopIteration(b, d) ==
    LET l1 == [loc[b] EXCEPT !.elapsed = @ + d,
                             !.sinceOutput = @ + d,
                             !.sinceCheck = @ + d]
        status_data == load_build_status(b)
    IN  IF l1.elapsed > BUILD_TIMEOUT_SECONDS
        THEN /\ save_build_status(b, TimeoutRecord(status_data))
             /\ pc' = [pc EXCEPT ![b] = "timeout_email"]
             /\ loc' = [loc EXCEPT ![b] = NoLocals]
             /\ fired' = [fired EXCEPT ![b] = "timeout"]
             /\ UNCHANGED proc
        ELSE LET content == log[b]
                 current_size == Len(content) + HeaderSize
                 step == get_current_step_from_log(content)
                 stepChanged == step[1] # l1.last_step
                 rec1 == IF stepChanged
                         THEN StepRecord(status_data, step[1], step[2])
                         ELSE status_data
                 l2 == [l1 EXCEPT !.last_step = step[1]]
             IN  IF current_size # l2.last_output_size
                 THEN SanityCheck(b, rec1,
                          [l2 EXCEPT !.last_output_size = current_size,
                                     !.sinceOutput = 0],
                          stepChanged)
                 ELSE IF l2.sinceOutput > BUILD_STALL_TIMEOUT_SECONDS
                 THEN /\ save_build_status(b, StalledRecord(rec1))
                      /\ pc' = [pc EXCEPT ![b] = "stall_email"]
                      /\ loc' = [loc EXCEPT ![b] = l2]
                      /\ fired' = [fired EXCEPT ![b] = "stall"]
                      /\ UNCHANGED proc
                 ELSE SanityCheck(b, rec1, l2, stepChanged)

\* one iteration of the monitor loop: `await asyncio.sleep(5)` returns after
\* d seconds, then the code up to the next await
Tick(b, d) ==
    /\ UNCHANGED <<limits, call, workers, now>>
    /\ mail' = "none"
    /\ resp' = NoResp
    /\ pc[b] = "sleep"
    /\ IF proc[b].state = "exited"
       THEN \* process.returncode is not None: pop, break, classify
            /\ running_processes' = running_processes \ {b}
            /\ Finalize(b)
            /\ loc' = [loc EXCEPT ![b] = NoLocals]
            /\ UNCHANGED <<proc, log, fired, ticks, kpc>>
       ELSE /\ ticks < limits.ticks
            /\ ticks' = ticks + 1
            /\ LoopIteration(b, d)
            /\ UNCHANGED <<running_processes, log, kpc>>

\* the iteration that finds the hard timeout exceeded, in a loop that goes
\* on while the process stays alive, also past the iterations `ticks` counts:
\* every iteration adds at least five seconds to elapsed_seconds
LateTick(b) ==
    /\ UNCHANGED <<limits, call, workers, now>>
    /\ mail' = "none"
    /\ resp' = NoResp
    /\ pc[b] = "sleep"
    /\ proc[b].state = "alive"
    /\ LoopIteration(b, BUILD_TIMEOUT_SECONDS + 1)
    /\ UNCHANGED <<running_processes, log, ticks, kpc>>

\* the iteration that finds the process exited
ExitTick(b) == proc[b].state = "exited" /\ Tick(b, POLL_INTERVAL)

\* the timeout branch after `await send_build_stalled_email`: process.kill(),
\* break, `await process.wait()`.  On a process that has exited, kill() raises
\* ProcessLookupError once the transport is closed and is a no-op before.
TimeoutContinue(b) ==
    /\ resp' = NoResp
    /\ pc[b] = "timeout_email"
    /\ IF proc[b].state = "exited"
       THEN /\ proc' = [proc EXCEPT ![b] = KillAfterExit(@)]
            /\ RaiseInRunBuild(b) \/ Finalize(b)
       ELSE /\ proc' = [proc EXCEPT ![b] = SupervisorKill(@)]
            /\ pc' = [pc EXCEPT ![b] = "wait"]
            /\ UNCHANGED <<storage, disk>>
    /\ UNCHANGED <<running_processes, log, loc, fired, ticks, kpc>>

\* `await send_build_stalled_email` of the timeout branch returns or raises;
\* the bare `except: pass` falls through to process.kill()
TimeoutResume(b, raised) ==
    /\ UNCHANGED <<limits, call, workers, now>>
    /\ mail' = NotifierResult(raised)
    /\ TimeoutContinue(b)

\* the stall branch after `await send_build_stalled_email`; here a raising
\* kill() is caught by the loop's own `except Exception` and the loop goes on
StallContinue(b) ==
    /\ resp' = NoResp
    /\ pc[b] = "stall_email"
    /\ IF proc[b].state = "exited"
       THEN /\ proc' = [proc EXCEPT ![b] = KillAfterExit(@)]
            /\ \/ /\ pc' = [pc EXCEPT ![b] = "sleep"]
                  /\ UNCHANGED <<storage, disk, loc, fired>>
               \/ /\ Finalize(b)
                  /\ loc' = [loc EXCEPT ![b] = NoLocals]
       ELSE /\ proc' = [proc EXCEPT ![b] = SupervisorKill(@)]
            /\ pc' = [pc EXCEPT ![b] = "wait"]
            /\ loc' = [loc EXCEPT ![b] = NoLocals]
            /\ UNCHANGED <<storage, disk>>
    /\ UNCHANGED <<running_processes, log, fired, ticks, kpc>>

\* a stalled-build email whose exception leaves the try block of the loop
StallResume_RaiseEscapes(b, raised) ==
    /\ UNCHANGED <<limits, call, workers, now>>
    /\ mail' = NotifierResult(raised)
    /\ IF raised
       THEN /\ pc[b] = "stall_email"
            /\ pc' = [pc EXCEPT ![b] = "sleep"]
            /\ resp' = NoResp
            /\ UNCHANGED <<storage, disk, running_processes, proc, log, loc,
                           fired, ticks, kpc>>
       ELSE StallContinue(b)

\* `await send_build_stalled_email` of the stall branch returns or raises;
\* the bare `except: pass` falls through to process.kill()
StallResume(b, raised) ==
    /\ UNCHANGED <<limits, call, workers, now>>
    /\ mail' = NotifierResult(raised)
    /\ StallContinue(b)

\* `await process.wait()` after a break returns once the process has exited
WaitDone(b) ==
    /\ UNCHANGED <<limits, call, workers, now>>
    /\ mail' = "none"
    /\ resp' = NoResp
    /\ pc[b] = "wait"
    /\ proc[b].state = "exited"
    /\ Finalize(b)
    /\ UNCHANGED <<running_processes, proc, log, loc, fired, ticks, kpc>>

\* run_build after the try/except around the completion email (of the normal
\* path or of the exception handler): it returns
EmailContinue(b) ==
    /\ resp' = NoResp
    /\ pc[b] \in {"complete_email", "exc_email"}
    /\ pc' = [pc EXCEPT ![b] = "done"]
    /\ UNCHANGED <<storage, disk, running_processes, proc, log, loc, fired, ticks, kpc>>

\* `await send_build_completed_email` returns or raises; `except Exception`
\* (bare `except` in the exception handler) falls through
EmailDone(b, raised) ==
    /\ UNCHANGED <<limits, call, workers, now>>
    /\ mail' = NotifierResult(raised)
    /\ EmailContinue(b)

\* --------------------------------------------------------------- kill_build
\* {"success": False, "error": ...}; cited is the status the error text names
KillFailed(b, error, cited) ==
    [call |-> "kill", build |-> b, outcome |-> "failure", error |-> error,
     cited |-> cited]

\* {"success": True, "message": "Build cancelled successfully"}
KillSucceeded(b) ==
    [call |-> "kill", build |-> b, outcome |-> "success", error |-> "", cited |-> ""]

\* "Update status" of kill_build; status_data is the dictionary the call
\* loaded at its start, which is the object held by _build_storage
CancelledRecord(status_data) ==
    [status_data EXCEPT !.status = "cancelled",
                        !.message = "Build was cancelled by user",
                        !.end_time = "set"]

\* kill_build that marks the build cancelled before it looks at its status
KillBuild_CancelFirst(b) ==
    /\ UNCHANGED <<limits, call, workers, now>>
    /\ mail' = "none"
    /\ b <= limits.builds
    /\ kpc[b] = "idle"
    /\ load_build_status(b) # NoRecord
    /\ save_build_status(b, CancelledRecord(load_build_status(b)))
    /\ resp' = KillFailed(b, "Build process is not running", "")
    /\ UNCHANGED <<running_processes, proc, log, pc, loc, fired, ticks, kpc>>

\* kill_build from its start to its first await (or to an early return), for
\* a build id of the scenario (an id is unknown until start_build has used it)
KillBuild(b) ==
    /\ UNCHANGED <<limits, call, workers, now>>
    /\ mail' = "none"
    /\ b <= limits.builds
    /\ kpc[b] = "idle"
    /\ LET status_data == load_build_status(b)
       IN  IF status_data = NoRecord
           THEN /\ resp' = KillFailed(b, "Build not found", "")
                /\ UNCHANGED <<proc, kpc>>
           ELSE IF status_data.status \notin {"running", "pending"}
           THEN /\ resp' = KillFailed(b, "Build cannot be killed - current status",
                                      status_data.status)
                /\ UNCHANGED <<proc, kpc>>
           ELSE IF b \notin running_processes \/ proc[b].state = "exited"
           THEN /\ resp' = KillFailed(b, "Build process is not running", "")
                /\ UNCHANGED <<proc, kpc>>
           ELSE \* process.terminate(); await wait_for(process.wait(), 5.0)
                /\ proc' = [proc EXCEPT ![b].term = @ + 1]
                /\ kpc' = [kpc EXCEPT ![b] = "term_wait"]
                /\ resp' = NoResp
    /\ UNCHANGED <<storage, disk, running_processes, log, pc, loc, fired, ticks>>

\* the tail of kill_build once process.wait() has returned
KillCommit(b) ==
    /\ save_build_status(b, CancelledRecord(storage[b]))
    /\ running_processes' = running_processes \ {b}
    /\ resp' = KillSucceeded(b)
    /\ kpc' = [kpc EXCEPT ![b] = "idle"]

\* the process exited within the five seconds after terminate()
KillTermWaitDone(b) ==
    /\ UNCHANGED <<limits, call, workers, now>>
    /\ mail' = "none"
    /\ kpc[b] = "term_wait"
    /\ proc[b].state = "exited"
    /\ KillCommit(b)
    /\ UNCHANGED <<proc, log, pc, loc, fired, ticks>>

\* asyncio.TimeoutError: process.kill(); await process.wait()
KillTermTimeout(b) ==
    /\ UNCHANGED <<limits, call, workers, now>>
    /\ mail' = "none"
    /\ resp' = NoResp
    /\ kpc[b] = "term_wait"
    /\ proc[b].state = "alive"
    /\ proc' = [proc EXCEPT ![b].kill = @ + 1]
    /\ kpc' = [kpc EXCEPT ![b] = "kill_wait"]
    /\ UNCHANGED <<storage, disk, running_processes, log, pc, loc, fired, ticks>>

\* the process exited after the forced kill
KillWaitDone(b) ==
    /\ UNCHANGED <<limits, call, workers, now>>
    /\ mail' = "none"
    /\ kpc[b] = "kill_wait"
    /\ proc[b].state = "exited"
    /\ KillCommit(b)
    /\ UNCHANGED <<proc, log, pc, loc, fired, ticks>>

\* ------------------------------------------------------- the build subprocess
\* lines written so far to the logs of the builds in S
RECURSIVE LogTotal(_)
LogTotal(S) ==
    IF S = {} THEN 0
    ELSE LET b == CHOOSE x \in S : TRUE
         IN  Len(log[b]) + LogTotal(S \ {b})

\* the subprocess appends a line to its log (stdout redirected to the file)
ProcWrite(b, line) ==
    /\ UNCHANGED <<limits, call, workers, now>>
    /\ mail' = "none"
    /\ resp' = NoResp
    /\ proc[b].state = "alive"
    /\ proc[b].kill = 0
    /\ LogTotal(BuildIds) < limits.log
    /\ log' = [log EXCEPT ![b] = Append(@, line)]
    /\ UNCHANGED <<storage, disk, running_processes, proc, pc, loc, fired, ticks, kpc>>

\* exit codes the subprocess may end with: -9 after SIGKILL; after SIGTERM
\* -15, or 0 when it handles the signal and ends cleanly; 0 or 1 on its own
ExitCodes(p) ==
    IF p.kill > 0 THEN {-9}
    ELSE IF p.term > 0 THEN {-15, 0}
    ELSE {0, 1}

\* the subprocess exits and the event loop records its returncode
ProcExit(b, rc) ==
    /\ UNCHANGED <<limits, call, workers, now>>
    /\ mail' = "none"
    /\ resp' = NoResp
    /\ proc[b].state = "alive"
    /\ rc \in ExitCodes(proc[b])
    /\ proc' = [proc EXCEPT ![b].state = "exited", ![b].returncode = rc]
    /\ UNCHANGED <<storage, disk, running_processes, log, pc, loc, fired, ticks, kpc>>

\* ------------------------------------------------------------ specification
Next ==
    \/ BuildStartRejected
    \/ \E b \in BuildIds : StartBuild(b)
    \/ \E b \in BuildIds, raised \in BOOLEAN : StartBuildResume(b, raised)
    \/ \E b \in BuildIds : RunBuildStart(b)
    \/ \E b \in BuildIds : SpawnOk(b)
    \/ \E b \in BuildIds : SpawnFail(b)
    \/ \E b \in BuildIds, d \in SleepDurations : Tick(b, d)
    \/ \E b \in BuildIds, raised \in BOOLEAN : TimeoutResume(b, raised)
    \/ \E b \in BuildIds, raised \in BOOLEAN : StallResume(b, raised)
    \/ \E b \in BuildIds : WaitDone(b)
    \/ \E b \in BuildIds, raised \in BOOLEAN : EmailDone(b, raised)
    \/ \E b \in BuildIds : KillBuild(b)
    \/ \E b \in BuildIds : KillTermWaitDone(b)
    \/ \E b \in BuildIds : KillTermTimeout(b)
    \/ \E b \in BuildIds : KillWaitDone(b)
    \/ \E b \in BuildIds, line \in LogLines : ProcWrite(b, line)
    \/ \E b \in BuildIds, rc \in {-15, -9, 0, 1} : ProcExit(b, rc)

Spec == Init /\ [][Next]_vars


\* ------------------------------------------------ the build machine, fair
\* The asyncio event loop runs every coroutine that can run, the awaits of
\* start_build and run_build on the notifier, on sleep and on the spawn
\* return, and a process that was sent SIGKILL exits.  A process that was
\* not killed need not exit, and nobody need call kill_build.  Of the
\* iterations of the monitor loop, the one that sees the process exited and
\* the one that finds the hard timeout exceeded are bound to happen unless
\* the loop is left before: the loop sleeps five seconds at a time.
LiveInit ==
    /\ ServerStart
    /\ limits = [builds |-> 1, log |-> 2, ticks |-> MaxTicks]

LiveNext ==
    \/ Next
    \/ \E b \in BuildIds : LateTick(b)

\* the next step of start_build / run_build of b
BuildStep(b) ==
    \/ \E raised \in BOOLEAN : StartBuildResume(b, raised)
    \/ RunBuildStart(b)
    \/ SpawnOk(b)
    \/ SpawnFail(b)
    \/ ExitTick(b)
    \/ LateTick(b)
    \/ \E raised \in BOOLEAN : TimeoutResume(b, raised)
    \/ \E raised \in BOOLEAN : StallResume(b, raised)
    \/ WaitDone(b)
    \/ \E raised \in BOOLEAN : EmailDone(b, raised)

\* the exit of a process that was sent SIGKILL
KilledExit(b) == proc[b].kill > 0 /\ ProcExit(b, -9)

LiveSpec ==
    /\ LiveInit
    /\ [][LiveNext]_vars
    /\ \A b \in BuildIds : WF_vars(BuildStep(b)) /\ WF_vars(KilledExit(b))


\* ------------------------------------------------- helper functions, applied
\* The helper functions of build_ops.py applied to inputs drawn from bounded
\* sets, one application per behaviour; `call` holds it.  The build machine
\* stands still.
machine == <<storage, disk, running_processes, proc, log, pc, loc, fired,
             ticks, limits, kpc, resp, mail, workers, now>>

\* an environment variable that is not set
Unset == "unset"

\* the environment variables run_build decides on
EnvNames ==
    {"BUILD_MODE", "SKIP_DEPS", "SKIP_PM2", "SKIP_REDIS", "FORCE_CLEAN",
     "TEST_DATABASE", "TEST_REDIS", "QUICK_BUILD", "FORCE_FULL_BUILD"}

\* os.environ of the server: some of the variables may be inherited
Environs ==
    {[n \in EnvNames |->
        CASE n = "SKIP_DEPS" -> d [] n = "FORCE_CLEAN" -> c
          [] n = "SKIP_PM2" -> p [] OTHER -> Unset] :
     d \in {Unset, "true", "false"}, c \in {Unset, "true", "false"},
     p \in {Unset, "false"}}

\* BuildMode
BuildModes == {"quick", "full", "phased", "phased-prod", "clean", "ram-optimized"}

\* the fields of BuildConfig that run_build reads for the environment
BuildConfigs ==
    [build_mode : BuildModes, skip_deps : BOOLEAN, force_clean : BOOLEAN,
     test_database : BOOLEAN, test_redis : BOOLEAN]

\* the environment that takes SKIP_DEPS from the request in every mode
BuildEnv_DepsFromConfig(config, environ) ==
    [environ EXCEPT !["BUILD_MODE"] = config.build_mode,
                    !["SKIP_DEPS"] = IF config.skip_deps THEN "true" ELSE "false"]

\* run_build, "Build environment variables": the environment handed to
\* create_subprocess_exec
BuildEnv(config, environ) ==
    LET build_mode == config.build_mode
        e1 == CASE build_mode = "quick" ->
                     [environ EXCEPT !["BUILD_MODE"] = "quick",
                                     !["SKIP_DEPS"] = "true",
                                     !["SKIP_PM2"] = "true",
                                     !["SKIP_REDIS"] = "true"]
                [] build_mode = "clean" ->
                     [environ EXCEPT !["BUILD_MODE"] = "full",
                                     !["FORCE_CLEAN"] = "true"]
                [] build_mode = "phased" ->
                     [environ EXCEPT !["BUILD_MODE"] = "phased"]
                [] build_mode = "phased-prod" ->
                     [environ EXCEPT !["BUILD_MODE"] = "phased",
                                     !["SKIP_DEPS"] = "false",
                                     !["TEST_DATABASE"] = "true",
                                     !["TEST_REDIS"] = "true"]
                [] OTHER ->
                     [environ EXCEPT !["BUILD_MODE"] = "full"]
        e2 == IF e1["SKIP_DEPS"] = Unset
              THEN [e1 EXCEPT !["SKIP_DEPS"] =
                        IF config.skip_deps THEN "true" ELSE "false"]
              ELSE e1
        e3 == IF e2["FORCE_CLEAN"] = Unset
              THEN [e2 EXCEPT !["FORCE_CLEAN"] =
                        IF config.force_clean THEN "false" ELSE "true"]
              ELSE e2
    IN  [e3 EXCEPT !["QUICK_BUILD"] =
                        IF build_mode = "quick" THEN "true" ELSE "false",
                   !["FORCE_FULL_BUILD"] =
                        IF build_mode = "full" THEN "true" ELSE "false"]

\* run_build builds the environment of a build requested with `config`
BuildEnvCall(config, environ) ==
    /\ call = NoCall
    /\ call' = [fn |-> "BuildEnv", config |-> config, environ |-> environ,
                env |-> BuildEnv(config, environ)]
    /\ UNCHANGED machine

\* records a build passes through
HelperRecords ==
    {InitialRecord,
     [InitialRecord EXCEPT !.status = "running", !.message = "Build starting..."],
     ExceptionRecord(InitialRecord)}

\* the status store as an earlier run left it: `mem` in the map and `file` on
\* disk after a save; nothing in the map and `file` on disk after a restart
StoreHolds(b, mem, file) ==
    /\ call = NoCall
    /\ file \in HelperRecords
    /\ mem \in {file, NoRecord}
    /\ storage' = [storage EXCEPT ![b] = mem]
    /\ disk' = [disk EXCEPT ![b] = file]
    /\ call' = [fn |-> "store"]
    /\ UNCHANGED <<running_processes, proc, log, pc, loc, fired, ticks, limits,
                   kpc, resp, mail, workers, now>>

\* save_build_status(b, record); prior is what load_build_status(b) returned
\* before
SaveCall(b, record) ==
    /\ call.fn \in {"none", "store"}
    /\ save_build_status(b, record)
    /\ call' = [fn |-> "save_build_status", build |-> b, record |-> record,
                prior |-> load_build_status(b), saves |-> 1,
                loaded |-> NoRecord]
    /\ UNCHANGED <<running_processes, proc, log, pc, loc, fired, ticks, limits,
                   kpc, resp, mail, workers, now>>

\* load_build_status(b), then save_build_status(b, record) with the content
\* of the save before
SaveAgainCall ==
    /\ call.fn = "save_build_status"
    /\ call.saves = 1
    /\ save_build_status(call.build, call.record)
    /\ call' = [call EXCEPT !.saves = 2,
                            !.loaded = load_build_status(call.build)]
    /\ UNCHANGED <<running_processes, proc, log, pc, loc, fired, ticks, limits,
                   kpc, resp, mail, workers, now>>

\* the status files of BUILD_DATA_DIR: file name (the build id; names are
\* numbered in lexicographic order) -> started_at of the record in the file
\* (timestamps are numbered in chronological order)
HistoryFiles ==
    UNION {[names -> 1..MaxFiles] : names \in SUBSET (1..MaxFiles)}

\* sorted(data_dir.glob("*.json"), reverse=True): the names, greatest first
RECURSIVE SortedReverse(_)
SortedReverse(names) ==
    IF names = {} THEN <<>>
    ELSE LET top == CHOOSE n \in names : \A o \in names : o <= n
         IN  <<top>> \o SortedReverse(names \ {top})

\* seq[:limit]
Take(seq, limit) == SubSeq(seq, 1, Min(limit, Len(seq)))

\* builds.sort(key=started_at, reverse=True) is stable: x goes behind every
\* record that is at least as recent
InsertBuild(sorted, x) ==
    LET ahead == Cardinality({i \in 1..Len(sorted) :
                                 sorted[i].started_at >= x.started_at})
    IN  SubSeq(sorted, 1, ahead) \o <<x>> \o SubSeq(sorted, ahead + 1, Len(sorted))

RECURSIVE SortByStartedAt(_)
SortByStartedAt(builds) ==
    IF builds = <<>> THEN <<>>
    ELSE InsertBuild(SortByStartedAt(SubSeq(builds, 1, Len(builds) - 1)),
                     builds[Len(builds)])

\* get_build_history
get_build_history(files, limit) ==
    LET chosen == Take(SortedReverse(DOMAIN files), limit)
        builds == [i \in 1..Len(chosen) |->
                      [build_id |-> chosen[i], started_at |-> files[chosen[i]]]]
    IN  Take(SortByStartedAt(builds), limit)

\* get_build_history(limit) over the files of BUILD_DATA_DIR
HistoryCall(files, limit) ==
    /\ call = NoCall
    /\ call' = [fn |-> "get_build_history", files |-> files, limit |-> limit,
                builds |-> get_build_history(files, limit)]
    /\ UNCHANGED machine

\* the logs the helper functions are applied to
Contents == UNION {[1..n -> AllLines] : n \in 0..MaxContent}

\* get_current_step_from_log(content)
CurrentStepCall(content) ==
    /\ call = NoCall
    /\ call' = [fn |-> "get_current_step_from_log", content |-> content,
                step |-> get_current_step_from_log(content)]
    /\ UNCHANGED machine

\* parse_log_line returns None
NoEntry == [level |-> "none"]

\* BuildLogEntry(level, message, step); step is -1 for None
BuildLogEntry(level, message, step) ==
    [level |-> level, message |-> message, step |-> step]

\* line[n:]
From(line, n) == SubSeq(line, n + 1, Len(line))

\* parse_log_line (the lines it is applied to hold no ANSI escape sequence,
\* so the re.sub that removes them leaves the line as it is)
parse_log_line(raw) ==
    LET line == Strip(raw)
    IN  IF line = "" THEN NoEntry
        ELSE IF StartsWith(line, "[BUILD]")
        THEN BuildLogEntry("build", Strip(From(line, 7)), -1)
        ELSE IF StartsWith(line, "[STEP") /\ StepMatchesAt(line, 1)
        THEN BuildLogEntry("step", StepGroups(line, 1)[2], StepGroups(line, 1)[1])
        ELSE IF StartsWith(line, "[OK]")
        THEN BuildLogEntry("ok", Strip(From(line, 4)), -1)
        ELSE IF StartsWith(line, "[INFO]")
        THEN BuildLogEntry("info", Strip(From(line, 6)), -1)
        ELSE IF StartsWith(line, "[WARN]")
        THEN BuildLogEntry("warn", Strip(From(line, 6)), -1)
        ELSE IF StartsWith(line, "[ERROR]")
        THEN BuildLogEntry("error", Strip(From(line, 7)), -1)
        ELSE BuildLogEntry("info", line, -1)

\* the lines parse_log_line is applied to: a prefix (or none, or a malformed
\* one), whitespace (or none), a text (or none), with and without whitespace
\* around
ParseLines ==
    {lead \o prefix \o sep \o body \o trail :
        lead \in {"", " "},
        prefix \in {"", "[BUILD]", "[STEP 3]", "[STEP 12]", "[STEP x]", "[STEP",
                    "[OK]", "[INFO]", "[WARN]", "[ERROR]"},
        sep \in {"", " ", "  ", "\t"},
        body \in {"", "done", "a b"},
        trail \in {"", " "}}

\* parse_log_line(line)
ParseCall(line) ==
    /\ call = NoCall
    /\ call' = [fn |-> "parse_log_line", line |-> line,
                entry |-> parse_log_line(line)]
    /\ UNCHANGED machine

\* the exit classification of run_build for a running build whose process
\* ended with `returncode` and whose log is `content`
ClassifyCall(content, returncode) ==
    /\ call = NoCall
    /\ call' = [fn |-> "run_build.classify", content |-> content,
                returncode |-> returncode,
                record |-> FinalRecord(
                               [InitialRecord EXCEPT !.status = "running"],
                               content, returncode)]
    /\ UNCHANGED machine

\* calculate_progress(current_step, step_complete)
ProgressCall(current_step, step_complete) ==
    /\ call = NoCall
    /\ call' = [fn |-> "calculate_progress", current_step |-> current_step,
                step_complete |-> step_complete,
                progress |-> calculate_progress(current_step, step_complete)]
    /\ UNCHANGED machine

HelperInit ==
    /\ Init
    /\ limits = [builds |-> 1, log |-> MaxLog, ticks |-> MaxTicks]

\* the inputs of a helper function: drawn from S before the one application
\* of the behaviour, none after it
Inputs(S) == IF call = NoCall THEN S ELSE {}

HelperNext ==
    \/ \E config \in Inputs(BuildConfigs), environ \in Environs :
           BuildEnvCall(config, environ)
    \/ \E b \in BuildIds, mem \in Inputs(HelperRecords \cup {NoRecord}),
          file \in HelperRecords : StoreHolds(b, mem, file)
    \/ \E b \in BuildIds, record \in HelperRecords : SaveCall(b, record)
    \/ SaveAgainCall
    \/ \E files \in Inputs(HistoryFiles), limit \in 0..(MaxFiles + 1) :
           HistoryCall(files, limit)
    \/ \E content \in Inputs(Contents) : CurrentStepCall(content)
    \/ \E line \in Inputs(ParseLines) : ParseCall(line)
    \/ \E content \in Inputs(Contents), returncode \in {0, 1} :
           ClassifyCall(content, returncode)
    \/ \E current_step \in -1..MaxStepIndex, step_complete \in BOOLEAN :
           ProgressCall(current_step, step_complete)

HelperSpec == HelperInit /\ [][HelperNext]_vars


\* ------------------------------------------ worker tracker and status files
\* The operations of system_metrics.py on the worker tracker and on the
\* status file of a build, next to start_build, the passing of time and a
\* restart of the server process.
tasks == <<running_processes, proc, log, pc, loc, fired, ticks, limits, kpc,
           resp, mail, call>>

\* job names and the statuses a build worker reports
JobNames == {"compile"}
ReportedStatuses == {"running", "completed"}

\* build_status["workers"] of a status file ({} when the key is missing)
FileWorkers(build_status) ==
    IF "workers" \in DOMAIN build_status THEN build_status.workers
    ELSE [w \in {} |-> NoWorker]

\* build_status with build_status["workers"] = file_workers
WithWorkers(build_status, file_workers) ==
    [k \in DOMAIN build_status \cup {"workers"} |->
        IF k = "workers" THEN file_workers ELSE build_status[k]]

\* update_build_worker: the tracker, then a read-modify-write of the status
\* file (the in-memory map is not touched)
update_build_worker(b, w, job_name, status) ==
    /\ update_worker(w, job_name, status)
    /\ IF disk[b] # NoRecord
       THEN LET entry == [job_name |-> job_name, status |-> status,
                          last_updated |-> now]
                others == FileWorkers(disk[b])
            IN  disk' = [disk EXCEPT ![b] =
                            WithWorkers(@,
                                [k \in DOMAIN others \cup {w} |->
                                    IF k = w THEN entry ELSE others[k]])]
       ELSE UNCHANGED disk
    /\ UNCHANGED storage

UpdateBuildWorker(b, w, job_name, status) ==
    /\ update_build_worker(b, w, job_name, status)
    /\ UNCHANGED <<now, tasks>>

\* remove_build_worker: the tracker, then the entry of the status file
RemoveBuildWorker(b, w) ==
    /\ remove_worker(w)
    /\ IF disk[b] # NoRecord /\ w \in DOMAIN FileWorkers(disk[b])
       THEN LET others == FileWorkers(disk[b])
            IN  disk' = [disk EXCEPT ![b] =
                            WithWorkers(@, [k \in DOMAIN others \ {w} |-> others[k]])]
       ELSE UNCHANGED disk
    /\ UNCHANGED <<storage, now, tasks>>

\* handle_stalled_workers: every stalled worker is stored again, as "stalled"
HandleStalledWorkers ==
    /\ workers' = [w \in WorkerIds |->
                      IF w \in get_stalled_workers
                      THEN WorkerEntry(w, workers[w].job_name, "stalled")
                      ELSE workers[w]]
    /\ UNCHANGED <<storage, disk, now, tasks>>

\* clear_workers (there are no worker status files)
ClearWorkers ==
    /\ clear_all_workers
    /\ UNCHANGED <<storage, disk, now, tasks>>

\* d minutes pass
PassTime(d) ==
    /\ now + d <= MaxMinutes
    /\ now' = now + d
    /\ UNCHANGED <<storage, disk, workers, tasks>>

\* the server process is restarted: the module globals are empty again, the
\* files stay
Restart ==
    /\ \E b \in BuildIds : storage[b] # NoRecord
    /\ storage' = [b \in BuildIds |-> NoRecord]
    /\ workers' = NoWorkers
    /\ UNCHANGED <<disk, now, tasks>>

WorkerInit ==
    /\ Init
    /\ limits = [builds |-> 1, log |-> MaxLog, ticks |-> MaxTicks]

WorkerNext ==
    \/ \E b \in BuildIds : StartBuild(b)
    \/ \E b \in BuildIds, w \in WorkerIds, job_name \in JobNames,
          status \in ReportedStatuses : UpdateBuildWorker(b, w, job_name, status)
    \/ \E b \in BuildIds, w \in WorkerIds : RemoveBuildWorker(b, w)
    \/ HandleStalledWorkers
    \/ ClearWorkers
    \/ \E d \in {stalled_threshold, stalled_threshold + 1} : PassTime(d)
    \/ Restart

WorkerSpec == WorkerInit /\ [][WorkerNext]_vars


\* ------------------------------------------------------------------ claims
HasMarker(content) == \E i \in 1..Len(content) : LineHasMarker(content[i])

\* run_build of b has just classified the exit of its process
Classified(b) == pc[b] # "complete_email" /\ pc'[b] = "complete_email"

\* C1: a record has status 'success' only if the process exited with code 0
\* and the log contains a success marker; when run_build classifies an exit
\* with code 0 and a log without marker, the status it writes is 'error'.
C1_SuccessNeedsMarker ==
    /\ [](\A b \in BuildIds :
            storage[b].status = "success" =>
                /\ proc[b].state = "exited"
                /\ proc[b].returncode = 0
                /\ HasMarker(log[b]))
    /\ [][\A b \in BuildIds :
            (Classified(b) /\ proc'[b].returncode = 0 /\ ~HasMarker(log'[b]))
                => storage'[b].status = "error"]_vars

\* C1 witness: an exit with code 0 and no marker has been classified as error
C1_Witness ==
    \E b \in BuildIds :
        /\ pc[b] = "complete_email"
        /\ proc[b].returncode = 0
        /\ ~HasMarker(log[b])
        /\ Len(log[b]) > 0
        /\ storage[b].status = "error"


\* run_build of b has killed its process, which was alive, and has returned
KilledAndDone(b) ==
    pc[b] = "done" /\ proc[b].supKill = 1 /\ proc[b].returncode = -9

\* C2: once the stall check has fired for a build and its process has been
\* killed, the record run_build leaves behind has status 'stalled' and
\* error_type 'STALLED'.
C2_StalledIsFinal ==
    \A b \in BuildIds :
        (fired[b] = "stall" /\ KilledAndDone(b)) =>
            /\ storage[b].status = "stalled"
            /\ storage[b].error_type = "STALLED"

\* C3: once the hard timeout has fired for a build and its process has been
\* killed, the record run_build leaves behind has status 'error' and
\* error_type 'TIMEOUT'.
C3_TimeoutIsFinal ==
    \A b \in BuildIds :
        (fired[b] = "timeout" /\ KilledAndDone(b)) =>
            /\ storage[b].status = "error"
            /\ storage[b].error_type = "TIMEOUT"

\* kill_build(b) has signalled the process and returned success
KillReturnedSuccess(b) == proc[b].term > 0 /\ kpc[b] = "idle"

\* C4: after kill_build has returned success the record is 'cancelled', also
\* once run_build has observed the exit and finished.
C4_CancelledIsFinal ==
    \A b \in BuildIds : KillReturnedSuccess(b) => storage[b].status = "cancelled"

\* C5: a terminal status is never changed by a later step.
C5_TerminalIsFinal ==
    [][\A b \in BuildIds :
          storage[b].status \in TerminalStatuses =>
              storage'[b].status = storage[b].status]_vars

ActiveBuilds == {b \in BuildIds : storage[b].status \in ActiveStatuses}

\* C7: at most one build record is pending or running.
C7_AtMostOneActive == Cardinality(ActiveBuilds) <= 1

\* C7 witness: a start request was refused while one build was active and
\* an earlier build had ended
C7_Witness ==
    /\ resp.call = "start"
    /\ resp.outcome = "400"
    /\ Cardinality(ActiveBuilds) = 1
    /\ \E b \in BuildIds : storage[b].status \in TerminalStatuses

\* C8: while a record is running its progress never decreases.
C8_ProgressMonotonic ==
    [][\A b \in BuildIds :
          (storage[b].status = "running" /\ storage'[b].status = "running") =>
              storage'[b].progress >= storage[b].progress]_vars

\* C9: a record with progress 100 has status 'success'.
C9_HundredMeansSuccess ==
    \A b \in BuildIds :
        (storage[b] # NoRecord /\ storage[b].progress = 100) =>
            storage[b].status = "success"

\* run_build of b is past the process.kill() of the branch that fired
PastKill(b) == pc[b] \in {"sleep", "wait", "complete_email", "exc_email", "done"}

\* C10: after the stall check has fired run_build issues process.kill()
\* once for that build, and never a second one.
C10_OneKillOnStall ==
    \A b \in BuildIds :
        /\ proc[b].supKill <= 1
        /\ (fired[b] = "stall" /\ PastKill(b)) => proc[b].supKill = 1

\* C10 witness: a stalled build was killed and its run_build has finished
C10_Witness ==
    \E b \in BuildIds :
        /\ fired[b] = "stall"
        /\ pc[b] = "done"
        /\ proc[b].supKill = 1
        /\ proc[b].returncode = -9

\* create_subprocess_exec of b has just raised
SpawnFailed(b) == pc[b] = "spawning" /\ pc'[b] = "exc_email"

\* C11: when spawning the subprocess fails the record has not been 'running':
\* the step that handles the failure finds it 'pending' and leaves it 'error'.
C11_SpawnFailureSkipsRunning ==
    [][\A b \in BuildIds :
          SpawnFailed(b) =>
              /\ storage[b].status = "pending"
              /\ storage'[b].status = "error"]_vars

\* the error taxonomy of a failed build
ErrorTypes ==
    {"TIMEOUT", "STALLED", "OUT_OF_MEMORY", "CONNECTION_ERROR",
     "MODULE_NOT_FOUND", "SYNTAX_ERROR", "TYPE_ERROR", "BUILD_ERROR"}

\* C12: a record whose status is 'error' or 'stalled' has an error_type of
\* the taxonomy and an error text.
C12_FailureHasTypeAndText ==
    \A b \in BuildIds :
        storage[b].status \in {"error", "stalled"} =>
            /\ storage[b].error_type \in ErrorTypes
            /\ storage[b].error # None

\* what start_build / run_build of b does after a notifier call that returned
NotifierContinue(b) ==
    \/ StartBuildContinue(b)
    \/ TimeoutContinue(b)
    \/ StallContinue(b)
    \/ EmailContinue(b)

\* C13: a notifier call that raises is followed by exactly what follows a
\* call that returns: the same record, the same kill of the subprocess, the
\* same next step of the build.
C13_NotifierFailureIsSwallowed ==
    [][mail' = "raised" => \E b \in BuildIds : NotifierContinue(b)]_vars

\* C13 witness: the stalled-build email raised and the process was killed
C13_Witness ==
    \E b \in BuildIds :
        /\ mail = "raised"
        /\ fired[b] = "stall"
        /\ pc[b] = "wait"
        /\ proc[b].supKill = 1
        /\ storage[b].status = "stalled"

\* C14: a build requested in mode 'quick' gets SKIP_DEPS=true, SKIP_PM2=true,
\* SKIP_REDIS=true and BUILD_MODE=quick, whatever the toggles of the request
\* and the inherited environment.
C14_QuickModeEnv ==
    (call.fn = "BuildEnv" /\ call.config.build_mode = "quick") =>
        /\ call.env["SKIP_DEPS"] = "true"
        /\ call.env["SKIP_PM2"] = "true"
        /\ call.env["SKIP_REDIS"] = "true"
        /\ call.env["BUILD_MODE"] = "quick"

\* C14 witness: a quick build whose request and inherited environment both
\* ask for the dependencies to be installed
C14_Witness ==
    /\ call.fn = "BuildEnv"
    /\ call.config.build_mode = "quick"
    /\ ~call.config.skip_deps
    /\ call.config.force_clean
    /\ call.environ["SKIP_DEPS"] = "false"
    /\ call.environ["SKIP_PM2"] = "false"
    /\ call.env["SKIP_DEPS"] = "true"

\* C15: load_build_status after a save returns the saved record, and after a
\* second save of the same content it returns what it returned after the first.
C15_SaveIsIdempotent ==
    call.fn = "save_build_status" =>
        /\ load_build_status(call.build) = call.record
        /\ call.saves = 2 => load_build_status(call.build) = call.loaded

\* C15 witness: a record was saved twice over a different record of the same
\* build that an earlier run had left on disk
C15_Witness ==
    /\ call.fn = "save_build_status"
    /\ call.saves = 2
    /\ call.prior = InitialRecord
    /\ call.record.status = "error"
    /\ call.loaded = call.record
    /\ storage[call.build] = call.record
    /\ disk[call.build] = call.record

\* C16: get_build_history(limit) returns min(limit, number of files) records,
\* ordered by started_at descending, and no record it leaves out started
\* later than one it returns.
C16_HistoryIsMostRecent ==
    call.fn = "get_build_history" =>
        LET builds == call.builds
            returned == {builds[i].build_id : i \in 1..Len(builds)}
        IN  /\ Len(builds) = Min(call.limit, Cardinality(DOMAIN call.files))
            /\ \A i, j \in 1..Len(builds) :
                   i < j => builds[i].started_at >= builds[j].started_at
            /\ \A i \in 1..Len(builds) :
                   /\ builds[i].build_id \in DOMAIN call.files
                   /\ builds[i].started_at = call.files[builds[i].build_id]
            /\ \A n \in DOMAIN call.files \ returned :
                   \A i \in 1..Len(builds) :
                       call.files[n] <= builds[i].started_at

\* the lines of a log that hold a '[STEP n] name' occurrence
MarkedLines(content) ==
    {i \in 1..Len(content) :
        \E k \in 1..Len(content[i]) : StepMatchesAt(content[i], k)}

\* C17: get_current_step_from_log returns the number and name of the last
\* '[STEP n] name' occurrence of the log (occurrences as the pattern finds
\* them: the name runs to the end of its line), whatever the numeric order of
\* the steps, and (0, 'Initializing') when the log holds none.
C17_LastStepWins ==
    call.fn = "get_current_step_from_log" =>
        LET marked == MarkedLines(call.content)
        IN  IF marked = {}
            THEN call.step = <<0, "Initializing">>
            ELSE \E i \in marked :
                    /\ \A j \in marked : j <= i
                    /\ call.step = StepSearch(call.content[i])

\* C17 witness: step 12 is followed by step 6 and by lines without a step
C17_Witness ==
    /\ call.fn = "get_current_step_from_log"
    /\ call.content = <<StepLine12, StepLine6, MarkerLine>>
    /\ call.step = <<6, "Verify build">>

\* the severity of the prefix a line starts with, "" when it starts with none
\* of the six ('[STEP n]' is the prefix of a line the numeric pattern matches)
PrefixLevel(line) ==
    CASE StartsWith(line, "[BUILD]") -> "build"
      [] StepMatchesAt(line, 1) -> "step"
      [] StartsWith(line, "[OK]") -> "ok"
      [] StartsWith(line, "[INFO]") -> "info"
      [] StartsWith(line, "[WARN]") -> "warn"
      [] StartsWith(line, "[ERROR]") -> "error"
      [] OTHER -> ""

\* the length of that prefix
PrefixLen(line) ==
    CASE StartsWith(line, "[BUILD]") -> 7
      [] StepMatchesAt(line, 1) -> 6 + DigitRun(line, 7) + 1
      [] StartsWith(line, "[OK]") -> 4
      [] StartsWith(line, "[INFO]") -> 6
      [] StartsWith(line, "[WARN]") -> 6
      [] StartsWith(line, "[ERROR]") -> 7
      [] OTHER -> 0

\* C18: a line (without blanks around it) that starts with one of the six
\* prefixes is returned with the severity of the prefix (and the number of
\* the step) and, as message, the line without the prefix and the whitespace
\* that follows it; a '[STEP' line the numeric pattern does not match is
\* returned as INFO with the whole line; an empty line returns nothing.
C18_ParseStripsPrefixOnly ==
    (call.fn = "parse_log_line" /\ call.line = Strip(call.line)) =>
        LET line == call.line
            entry == call.entry
        IN  /\ line = "" => entry = NoEntry
            /\ PrefixLevel(line) # "" =>
                   /\ entry.level = PrefixLevel(line)
                   /\ entry.message = LStrip(From(line, PrefixLen(line)))
                   /\ PrefixLevel(line) = "step" =>
                          entry.step = ToInt(SubSeq(line, 7, PrefixLen(line) - 1))
            /\ (StartsWith(line, "[STEP") /\ ~StepMatchesAt(line, 1)) =>
                   /\ entry.level = "info"
                   /\ entry.message = line

\* the lines in lower case
LowerOf == [l \in AllLines |-> Lower(l)]

\* one of the phrases occurs in the log, in any letter case
PhraseInLog(content, phrases) ==
    \E i \in 1..Len(content), p \in phrases : Occurs(p, LowerOf[content[i]])

\* the categories of a failed build in the order of their priority, with the
\* phrases of each
ErrorTaxonomy ==
    <<[type |-> "OUT_OF_MEMORY",
       phrases |-> {"out of memory", "heap out of memory"}],
      [type |-> "CONNECTION_ERROR",
       phrases |-> {"econnrefused", "connection refused"}],
      [type |-> "MODULE_NOT_FOUND",
       phrases |-> {"module not found", "cannot find module"}],
      [type |-> "SYNTAX_ERROR",
       phrases |-> {"syntax error", "unexpected token"}],
      [type |-> "TYPE_ERROR",
       phrases |-> {"type error", "typescript error"}]>>

\* C19: a build classified as failed at process exit gets the first category
\* of the taxonomy one of whose phrases occurs in the log in any letter case,
\* and BUILD_ERROR when none does.
C19_FirstCategoryWins ==
    (call.fn = "run_build.classify" /\ call.record.status = "error") =>
        LET found == {k \in 1..Len(ErrorTaxonomy) :
                         PhraseInLog(call.content, ErrorTaxonomy[k].phrases)}
        IN  IF found = {}
            THEN call.record.error_type = "BUILD_ERROR"
            ELSE \E k \in found :
                    /\ \A j \in found : k <= j
                    /\ call.record.error_type = ErrorTaxonomy[k].type

\* C19 witness: a failed build whose log has a connection error, then 'Heap
\* Out Of Memory' in mixed case, then a type error
C19_Witness ==
    /\ call.fn = "run_build.classify"
    /\ call.returncode = 1
    /\ call.content = <<"Error: connect ECONNREFUSED ::1:6379",
                        "JavaScript Heap Out Of Memory",
                        "Type error: x is not assignable">>
    /\ call.record.status = "error"
    /\ call.record.error_type = "OUT_OF_MEMORY"

\* C20: calculate_progress(0, False) is 0, calculate_progress(9, True) is 99,
\* no result exceeds 99, also for an index outside the step table, and the
\* result for a step index is at least the result for the index before it.
C20_ProgressCapped ==
    call.fn = "calculate_progress" =>
        /\ call.progress <= 99
        /\ (call.current_step = 0 /\ ~call.step_complete) => call.progress = 0
        /\ (call.current_step = 9 /\ call.step_complete) => call.progress = 99
        /\ call.progress >=
               calculate_progress(call.current_step - 1, call.step_complete)

\* C20 witness: the last step of the table, complete
C20_Witness ==
    /\ call.fn = "calculate_progress"
    /\ call.current_step = 9
    /\ call.step_complete
    /\ call.progress = 99

\* the sanity check whose condition holds in an iteration of the monitor loop
\* of b that starts after a sleep of d seconds: the hard timeout, else the
\* stall window, else the memory phrases at the health-check interval
ForcedFailureDue(b, d) ==
    IF loc[b].elapsed + d > BUILD_TIMEOUT_SECONDS THEN "timeout"
    ELSE IF /\ Len(log[b]) + HeaderSize = loc[b].last_output_size
            /\ loc[b].sinceOutput + d > BUILD_STALL_TIMEOUT_SECONDS THEN "stall"
    ELSE IF /\ loc[b].sinceCheck + d > BUILD_SANITY_CHECK_INTERVAL
            /\ OomInLog(log[b]) THEN "oom"
    ELSE "none"

\* C21: in an iteration of the monitor loop that finds the process exited
\* while the timeout, stall or memory condition holds, that sanity check is
\* the one that fires, and the exit is not classified in that iteration.
C21_ForcedFailureBeforeExit ==
    [][\A b \in BuildIds, d \in SleepDurations :
          (/\ Tick(b, d)
           /\ proc[b].state = "exited"
           /\ ForcedFailureDue(b, d) # "none") =>
              /\ fired'[b] = ForcedFailureDue(b, d)
              /\ pc'[b] # "complete_email"]_vars

\* C22: the status of a record never moves backward: not from 'running' to
\* 'pending', and not from a terminal status to 'pending' or 'running', in
\* the map or in the file.
C22_StatusNeverMovesBack ==
    [][\A b \in BuildIds :
          /\ storage[b].status = "running" => storage'[b].status # "pending"
          /\ storage[b].status \in TerminalStatuses =>
                storage'[b].status \notin ActiveStatuses
          /\ disk[b].status = "running" => disk'[b].status # "pending"
          /\ disk[b].status \in TerminalStatuses =>
                disk'[b].status \notin ActiveStatuses]_vars

\* C22 witness: a record that kill_build had marked cancelled was written
\* again by run_build, and a record that failed to spawn had been running
C22_Witness ==
    /\ \E b \in BuildIds :
          /\ KillReturnedSuccess(b)
          /\ pc[b] = "done"
          /\ storage[b].status \in TerminalStatuses \ {"cancelled"}
    /\ \E b \in BuildIds :
          /\ proc[b].state = "none"
          /\ pc[b] = "exc_email"
          /\ storage[b].status = "error"

\* C23: a record is 'cancelled' only if a kill_build call for that build has
\* sent SIGTERM to its process, has seen it exit and has returned.
C23_CancelledOnlyByKill ==
    \A b \in BuildIds :
        storage[b].status = "cancelled" =>
            /\ proc[b].term > 0
            /\ proc[b].state = "exited"
            /\ kpc[b] = "idle"

\* C23 witness: kill_build has just returned success for a build that its
\* run_build had killed too, and the record is cancelled
C23_Witness ==
    \E b \in BuildIds :
        /\ resp = KillSucceeded(b)
        /\ storage[b].status = "cancelled"
        /\ proc[b].supKill = 1
        /\ proc[b].returncode = -9

\* C24: a record that carries an error_type has status 'error' or 'stalled'.
C24_ErrorTypeOnlyOnFailure ==
    \A b \in BuildIds :
        (storage[b] # NoRecord /\ storage[b].error_type # None) =>
            storage[b].status \in {"error", "stalled"}

\* C25: completed_at is null while a record is pending or running and set
\* whenever its status is terminal.
C25_CompletedAtIffTerminal ==
    \A b \in BuildIds :
        /\ storage[b].status \in ActiveStatuses =>
              storage[b].completed_at = None
        /\ storage[b].status \in TerminalStatuses =>
              storage[b].completed_at # None

\* C26: after every operation that writes a build record, the status file
\* and the in-memory map hold the same record for that build.
C26_WriteThrough ==
    \A b \in BuildIds : storage[b] # NoRecord => disk[b] = storage[b]

\* what get_all_workers reports for the workers of the tracker
TrackedWorkers == {w \in WorkerIds : workers[w] # NoWorker}

\* C27: the tracker never stores 'stalled' as the status of a worker, and
\* get_all_workers reports a worker as stalled exactly when its last update
\* is older than the threshold.
C27_StalledIsComputedOnRead ==
    \A w \in TrackedWorkers :
        /\ workers[w].status # "stalled"
        /\ get_all_workers(w).status = "stalled" <=>
              now - workers[w].last_updated > stalled_threshold

\* C28: every build start_build has created a record for reaches a terminal
\* status, and its run_build returns.
C28_EveryBuildEnds ==
    \A b \in BuildIds :
        (storage[b] # NoRecord) ~>
            (storage[b].status \in TerminalStatuses /\ pc[b] = "done")

\* C28 witness: a process that wrote to its log and never exited on its own
\* was killed by the hard timeout after the counted iterations, and run_build
\* has returned
C28_Witness ==
    \E b \in BuildIds :
        /\ pc[b] = "done"
        /\ fired[b] = "timeout"
        /\ ticks = limits.ticks
        /\ Len(log[b]) > 0
        /\ proc[b].term = 0
        /\ proc[b].returncode = -9
        /\ storage[b].status \in TerminalStatuses

\* C29: with no FORCE_CLEAN inherited from the server environment, the
\* subprocess gets FORCE_CLEAN=true exactly when the mode is 'clean' or the
\* request's force_clean toggle is set, and FORCE_CLEAN=false otherwise.
C29_ForceCleanFollowsRequest ==
    (call.fn = "BuildEnv" /\ call.environ["FORCE_CLEAN"] = Unset) =>
        call.env["FORCE_CLEAN"] =
            IF call.config.build_mode = "clean" \/ call.config.force_clean
            THEN "true" ELSE "false"

\* C30: every id in _running_processes belongs to a build whose run_build has
\* spawned its process and has not returned.
C30_TableHoldsOnlyLiveBuilds ==
    \A b \in running_processes : pc[b] \notin {"none", "done"}

====
